---- MODULE Spec2Model ----
(***************************************************************************)
(* State-machine model of the trade decision engine                        *)
(* (backend/trading/decision_module.py) and of the execution gateway       *)
(* (backend/trading/order_executor.py).                                    *)
(*                                                                         *)
(* Units.  Python floats are modelled by exact integers:                   *)
(*   prices, profits        hundredths   (1.0  is 100)                     *)
(*   sell_multiplier        hundredths   (2.0  is 200)                     *)
(*   trailing_stop_percent  hundredths   (0.15 is 15)                      *)
(*   taxes                  hundredths   (0.15 is 15)                      *)
(*   SOL amounts            milli-SOL    (0.01 SOL is 10)                  *)
(*   time                   seconds elapsed since BotManager.start_time    *)
(* Every await that suspends on network I/O is a separate step of the      *)
(* task that executes it; code between two such awaits is one atomic step  *)
(* (single-threaded cooperative event loop).                               *)
(***************************************************************************)
EXTENDS Integers, Sequences, FiniteSets, TLC

\* ------------------------------------------------------------------ bounds
MaxJournal == 3
MaxSimJournal == 6
MaxTicks == 2
MaxOptTicks == 3

\* --------------------------------------------------------- program constants
ExplorationWindow == 3600
HoneypotCacheTTL == 300
MaxTaxPct == 15
MaxMarketcap == 50000
TxFeeMilli == 1
MinBalanceMilli == 10
MinBuyAmount == 10          \* 0.01 SOL
MaxBuyAmount == 2000        \* 2.0 SOL
MinSellMultiplier == 100    \* 1.0
MaxSellMultiplier == 250    \* 2.5
NegInf == -1000000          \* float('-inf'): below every profit of the model

\* ------------------------------------------------------------ input domains
Tokens == {"X", "Y"}
CandTasks == {"c1", "c2"}
BuyAmounts == {10, 100}
SellMultipliers == {200, 250}
TrailingStops == {15, 50}
Capitals == {0, 100}
Balances == {0, 11, 101}
CreatorLists == {<<>>, <<"w1">>}
TimeDeltas == {300, 3600}
KeyKinds == {"valid", "malformed", "missing"}

\* ------------------------------------------ Python dict (insertion ordered)
\* A dict is a sequence of [k, v] entries in insertion order.
EmptyDict == <<>>

Keys(d) == [i \in 1..Len(d) |-> d[i].k]

Has(d, key) == \E i \in 1..Len(d) : d[i].k = key

Get(d, key) == d[CHOOSE i \in 1..Len(d) : d[i].k = key].v

\* d[key] = val : an existing key keeps its place, a new key goes last
Put(d, key, val) ==
    IF Has(d, key)
    THEN [i \in 1..Len(d) |-> IF d[i].k = key THEN [k |-> key, v |-> val] ELSE d[i]]
    ELSE Append(d, [k |-> key, v |-> val])

\* del d[key] (the caller checks Has first: a missing key raises KeyError)
Del(d, key) == SelectSeq(d, LAMBDA e : e.k # key)

\* Python truthiness of a dict: a dict is falsy only when it is empty
Truthy(dict) == DOMAIN dict # {}


\* -------------------------------------------------------------------- state
VARIABLES
    simulation_mode,        \* DecisionModule.simulation_mode
    simulate,               \* OrderExecutor.simulate
    payer,                  \* OrderExecutor.payer is loaded (not None)
    buy_amount_sol,         \* DecisionModule.buy_amount_sol      (milli-SOL)
    sell_multiplier,        \* DecisionModule.sell_multiplier     (hundredths)
    trailing_stop_percent,  \* DecisionModule.trailing_stop_percent (hundredths)
    capital,                \* DecisionModule.capital
    available_capital,      \* DecisionModule.available_capital
    held_tokens,            \* DecisionModule.held_tokens : dict mint -> position
    honeypot_cache,         \* DecisionModule.honeypot_cache : mint -> entry
    simulation_trades_log,  \* logs/simulation_trades.log (= simulation_results)
    real_trades_log,        \* logs/real_trades.log
    now,                    \* time.time() - bot_manager.start_time
    ticks,                  \* number of clock advances so far
    cand,                   \* process_new_token_candidate tasks
    eval,                   \* evaluate_held_tokens_for_sale task
    liq,                    \* sell_all_tokens task
    optimizer,              \* AIAutoOptimizer fields (record)
    param_file,             \* logs/ai_optimizer_params.json
    successful_creator_cache, \* DecisionModule.successful_creator_cache
    life,                   \* scanner / optimizer running flag, optimizer thread
    scanner,                \* NewPairScanner.start task
    realtime_analyzer,      \* DecisionModule.realtime_analyzer and its _watched_tokens
    last_pool,              \* history: last transaction process_new_pool examined
    last_swap,              \* history: last result returned by the gateway
    last_exit               \* history: last exit rule that decided a sale

vars == << simulation_mode, simulate, payer, buy_amount_sol, sell_multiplier,
           trailing_stop_percent, capital, available_capital, held_tokens,
           honeypot_cache, simulation_trades_log, real_trades_log, now, ticks,
           cand, eval, liq, optimizer, param_file, successful_creator_cache,
           life, scanner, realtime_analyzer, last_pool, last_swap, last_exit >>

modeVars == << simulation_mode, simulate, payer >>
paramVars == << buy_amount_sol, sell_multiplier, trailing_stop_percent >>
capitalVars == << capital, available_capital >>
clockVars == << now, ticks >>
bgVars == << param_file, successful_creator_cache, life, scanner, last_pool >>

Idle == [pc |-> "idle"]

\* ------------------------------------------------------- execution gateway
\* OrderExecutor.__init__: a key that does not decode falls back to simulation;
\* an empty key skips the decoding and leaves payer = None with simulate False.
GatewaySimulate(sim, key) == sim \/ key = "malformed"

GatewayPayer(sim, key) == ~sim /\ key = "valid"

\* execute_buy returns a dict in every case; "success" is one of its keys.
BuyResult(ok) == [success |-> ok, txid |-> IF ok THEN "tx" ELSE "none"]

\* what the gateway can answer to execute_buy
BuyOutcomes ==
    IF simulate THEN {TRUE}
    ELSE IF ~payer THEN {FALSE}
    ELSE BOOLEAN

\* execute_sell: the simulated gateway reports sell_price_sol = 0, the real one
\* the quoted out amount; any exception gives success = False.
SellProceeds == {0, 200}

SellOutcomes ==
    IF simulate THEN {[success |-> TRUE, sell_price_sol |-> 0]}
    ELSE IF ~payer THEN {[success |-> FALSE]}
    ELSE {[success |-> FALSE]} \cup
         {[success |-> TRUE, sell_price_sol |-> q] : q \in SellProceeds}

\* get_wallet_status: balance_sol and balance_ok
WalletStatus(balance) ==
    IF simulate \/ ~payer
    THEN [balance_sol |-> 0, balance_ok |-> FALSE]
    ELSE [balance_sol |-> balance, balance_ok |-> balance > MinBalanceMilli]

\* ------------------------------------------------------------ trade journal
TradeRecord(action, token, price) ==
    [action |-> action, token |-> token, price |-> price, forced |-> FALSE]

ForcedRecord(token, price) ==
    [action |-> "sell", token |-> token, price |-> price, forced |-> TRUE]

\* room left in both journals (model bound on the length of a run)
JournalRoom ==
    /\ Len(simulation_trades_log) < MaxSimJournal
    /\ Len(real_trades_log) < MaxJournal

\* --------------------------------------------------- optimizer, construction
\* logs/ai_optimizer_params.json as _save_best_params writes it, or no file
NoParamFile == [missing |-> TRUE]

NoParams == << >>           \* best_params = None

BestParams(buy, sell) == [buy_amount_sol |-> buy, sell_multiplier |-> sell]

ParamFile(params, profit) == [best_params |-> params, best_profit |-> profit]

\* the files a previous process lifetime can have left behind
ParamFiles == {NoParamFile, ParamFile(BestParams(100, 200), 200)}

\* AIAutoOptimizer.__init__ followed by _load_best_params.  ticks_done is
\* len(param_history); the fields that only feed the status API (winrate,
\* drawdown, max_drawdown, hall_of_fame, last_analysis) are left out.
OptimizerInit(file) ==
    [best_params    |-> IF file = NoParamFile THEN NoParams ELSE file.best_params,
     best_profit    |-> IF file = NoParamFile THEN NegInf ELSE file.best_profit,
     freeze         |-> FALSE,
     rollback_count |-> 0,
     loss_streak    |-> 0,
     win_streak     |-> 0,
     last_profit    |-> 0,
     current_profile |-> 2,
     ticks_done     |-> 0]

\* ------------------------------------------------- creator cache, lifecycle
\* self.successful_creator_cache is read at decision_module.py lines 168 and
\* 429 and is assigned nowhere: the attribute does not exist, a read of it
\* raises AttributeError, and _save_creator_cache (line 432) is not defined.
NoCreatorCache == [assigned |-> FALSE]

\* after BotManager.setup_and_start: the scanner runs, and in simulation mode
\* the optimizer thread has been started and is at the test of its loop
LifeInit(sim) == [running |-> TRUE, opt |-> IF sim THEN "loop" ELSE "none"]

\* the task of NewPairScanner.start, created by setup_and_start: it is about
\* to open the connection in _listen
ScannerInit == [pc |-> "connect"]

\* DecisionModule.__init__ does not assign realtime_analyzer: the attribute is
\* missing until set_realtime_analyzer is called
NoAnalyzer == [attached |-> FALSE, watched |-> {}]

\* a RealTimeAnalyzer as its constructor leaves it
NewAnalyzer == [attached |-> TRUE, watched |-> {}]

\* `if hasattr(self, 'realtime_analyzer') and self.realtime_analyzer:` followed
\* by start_monitoring_token / stop_monitoring_token
StartMonitoring(analyzer, token) ==
    IF analyzer.attached
    THEN [analyzer EXCEPT !.watched = @ \cup {token}]
    ELSE analyzer

StopMonitoring(analyzer, token) ==
    IF analyzer.attached
    THEN [analyzer EXCEPT !.watched = @ \ {token}]
    ELSE analyzer

\* mints: SOL_MINT, and the absence of a mint
SOL_MINT == "SOL"

NoMint == "none"

\* ------------------------------------------------------------------- Init
\* BotManager.setup_and_start: the gateway and the decision module
InitDecisionWith(journal) ==
    /\ simulation_mode \in BOOLEAN
    /\ \E key \in KeyKinds :
          /\ simulate = GatewaySimulate(simulation_mode, key)
          /\ payer = GatewayPayer(simulation_mode, key)
    /\ buy_amount_sol = 10
    /\ sell_multiplier = 200
    /\ trailing_stop_percent = 15
    /\ capital = 0
    /\ available_capital = 0
    /\ held_tokens = EmptyDict
    /\ honeypot_cache = << >>
    /\ simulation_trades_log = journal
    /\ real_trades_log = << >>
    /\ now = 0
    /\ ticks = 0
    /\ cand = [p \in CandTasks |-> Idle]
    /\ eval = Idle
    /\ liq = Idle
    /\ successful_creator_cache = NoCreatorCache
    /\ life = LifeInit(simulation_mode)
    /\ scanner = ScannerInit
    /\ last_pool = [forwarded |-> NoMint]
    /\ realtime_analyzer = NoAnalyzer
    /\ last_swap = [op |-> "none"]
    /\ last_exit = [kind |-> "none"]

\* a start with no simulation journal on disk
InitDecision == InitDecisionWith(<< >>)

Init ==
    /\ InitDecision
    /\ param_file = NoParamFile
    /\ optimizer = OptimizerInit(param_file)

\* the same start, with whatever parameter file the logs directory holds
InitOptimizer ==
    /\ InitDecision
    /\ param_file \in ParamFiles
    /\ optimizer = OptimizerInit(param_file)


\* -------------------------------------------------------------- positions
\* A position is the dict stored in held_tokens; "max_price" is a key that
\* only the trailing-stop section of the exit evaluation adds.
NewPosition(price, amount, creators, ts) ==
    [buy_price |-> price, buy_amount |-> amount,
     creator_wallets |-> creators, buy_timestamp |-> ts]

WithMaxPrice(pos, m) ==
    [buy_price |-> pos.buy_price, buy_amount |-> pos.buy_amount,
     creator_wallets |-> pos.creator_wallets,
     buy_timestamp |-> pos.buy_timestamp, max_price |-> m]

HasMaxPrice(pos) == "max_price" \in DOMAIN pos

\* ------------------------------------------------------------ safety probe
NoTaxes == << >>

Taxes(buy, sell) == ("buy" :> buy) @@ ("sell" :> sell)

\* taxes.get(key, 0)
TaxGet(taxes, key) == IF key \in DOMAIN taxes THEN taxes[key] ELSE 0

\* answers of the safety oracle: a non-200 status (or an exception), or a
\* 200 answer with its data
OracleReply(honeypot, taxes, marketcap, antiBot) ==
    [status |-> 200, honeypot |-> honeypot, taxes |-> taxes,
     marketcap |-> marketcap, antiBot |-> antiBot]

OracleUnavailable == [status |-> 500]

OracleReplies ==
    { OracleUnavailable,
      OracleReply(FALSE, Taxes(15, 15), 50000, FALSE),
      OracleReply(TRUE, NoTaxes, 0, FALSE),
      OracleReply(FALSE, Taxes(16, 0), 0, FALSE),
      OracleReply(FALSE, Taxes(0, 16), 0, FALSE),
      OracleReply(FALSE, NoTaxes, 50001, FALSE),
      OracleReply(FALSE, NoTaxes, 0, TRUE) }

\* _check_token_honeypot_and_taxes: the result dict built from the answer.
\* `available` is a history field (whether the oracle answered 200); the dict
\* of the code has no such key and no check reads it.
HoneypotResult(reply) ==
    IF reply.status = 200
    THEN [is_honeypot |-> reply.honeypot, taxes |-> reply.taxes,
          marketcap |-> reply.marketcap, antiBot |-> reply.antiBot,
          available |-> TRUE]
    ELSE [is_honeypot |-> FALSE, taxes |-> NoTaxes, marketcap |-> 0,
          antiBot |-> FALSE, available |-> FALSE]

\* the cache entry is served while it is younger than the TTL
CacheHit(token) ==
    /\ token \in DOMAIN honeypot_cache
    /\ now - honeypot_cache[token].timestamp < HoneypotCacheTTL

CacheStore(cache, token, data) ==
    [k \in DOMAIN cache \cup {token} |->
        IF k = token THEN [timestamp |-> now, data |-> data] ELSE cache[k]]

\* mutant: the tax rule looks at the buy tax only
RejectRule_BuyTaxOnly(info, has_liquidity, is_sellable) ==
    IF info.is_honeypot THEN "honeypot"
    ELSE IF Truthy(info.taxes) /\ TaxGet(info.taxes, "buy") > MaxTaxPct THEN "taxes"
    ELSE IF info.marketcap # 0 /\ info.marketcap > MaxMarketcap THEN "marketcap"
    ELSE IF info.antiBot THEN "antibot"
    ELSE IF ~has_liquidity THEN "liquidity"
    ELSE IF ~is_sellable THEN "sellable"
    ELSE "none"

\* the admission rules of process_new_token_candidate, in the order of the code;
\* "none" when no rule rejects
RejectRule(info, has_liquidity, is_sellable) ==
    IF info.is_honeypot THEN "honeypot"
    ELSE IF Truthy(info.taxes) /\ (TaxGet(info.taxes, "buy") > MaxTaxPct
                                   \/ TaxGet(info.taxes, "sell") > MaxTaxPct)
         THEN "taxes"
    ELSE IF info.marketcap # 0 /\ info.marketcap > MaxMarketcap THEN "marketcap"
    ELSE IF info.antiBot THEN "antibot"
    ELSE IF ~has_liquidity THEN "liquidity"
    ELSE IF ~is_sellable THEN "sellable"
    ELSE "none"

\* the checks made between get_wallet_status and execute_buy, in order
EntryVerdict(status, token, info, has_liquidity, is_sellable) ==
    IF ~status.balance_ok \/ status.balance_sol < buy_amount_sol + TxFeeMilli
    THEN "balance"
    ELSE IF available_capital < buy_amount_sol THEN "capital"
    ELSE IF Has(held_tokens, token) THEN "held"
    ELSE RejectRule(info, has_liquidity, is_sellable)


\* ------------------------------------------- process_new_token_candidate
\* The coroutine, entered by task p, up to its first suspension.  In simulation
\* mode the whole body runs without suspending: the buy is journaled and the
\* position is (re)written unconditionally.  In real mode the task suspends on
\* _detect_creator_wallets with is_exploration_phase already computed.
EnterCandidate(p, token, price) ==
    /\ JournalRoom
    /\ IF simulation_mode
       THEN /\ simulation_trades_log' =
                  Append(simulation_trades_log, TradeRecord("buy", token, price))
            /\ held_tokens' = Put(held_tokens, token,
                                  NewPosition(price, buy_amount_sol, << >>, now))
            /\ realtime_analyzer' = StartMonitoring(realtime_analyzer, token)
            /\ cand' = [cand EXCEPT ![p] = Idle]
       ELSE /\ cand' = [cand EXCEPT ![p] =
                  [pc |-> "detect", token |-> token, price |-> price,
                   explore |-> now < ExplorationWindow]]
            /\ UNCHANGED << simulation_trades_log, held_tokens, realtime_analyzer >>
    /\ UNCHANGED << modeVars, optimizer, param_file, successful_creator_cache,
                    life, scanner, paramVars, capitalVars, honeypot_cache,
                    real_trades_log, clockVars, eval, liq, last_swap, last_exit >>

\* a caller awaits process_new_token_candidate(token, price) in an idle task
Candidate(p, token, price) ==
    /\ cand[p].pc = "idle"
    /\ EnterCandidate(p, token, price)
    /\ UNCHANGED last_pool

\* mutant: outside the exploration phase a candidate with a creator goes on
DetectDone_AnyCreatorTrusted(p, creators) ==
    /\ cand[p].pc = "detect"
    /\ cand' = [cand EXCEPT ![p] =
          IF ~cand[p].explore /\ creators = << >> THEN Idle
          ELSE IF CacheHit(cand[p].token)
          THEN [pc |-> "quotes", token |-> cand[p].token, price |-> cand[p].price,
                creators |-> creators,
                info |-> honeypot_cache[cand[p].token].data]
          ELSE [pc |-> "oracle", token |-> cand[p].token, price |-> cand[p].price,
                creators |-> creators]]
    /\ UNCHANGED << modeVars, optimizer, bgVars, realtime_analyzer, paramVars, capitalVars, held_tokens, honeypot_cache,
                    simulation_trades_log, real_trades_log, clockVars, eval, liq,
                    last_swap, last_exit >>

\* _detect_creator_wallets has answered.  Outside the exploration phase the
\* candidate is dropped: with no creator any() is False, and with a creator
\* the lookup of self.successful_creator_cache (an attribute the class never
\* assigns) raises AttributeError, which the handler's except logs.  In the
\* exploration phase the three probes start; the honeypot probe returns the
\* cached result when the entry is fresh, otherwise it suspends on the oracle.
DetectDone(p, creators) ==
    /\ cand[p].pc = "detect"
    /\ cand' = [cand EXCEPT ![p] =
          IF ~cand[p].explore THEN Idle
          ELSE IF CacheHit(cand[p].token)
          THEN [pc |-> "quotes", token |-> cand[p].token, price |-> cand[p].price,
                creators |-> creators,
                info |-> honeypot_cache[cand[p].token].data]
          ELSE [pc |-> "oracle", token |-> cand[p].token, price |-> cand[p].price,
                creators |-> creators]]
    /\ UNCHANGED << modeVars, optimizer, bgVars, realtime_analyzer, paramVars, capitalVars, held_tokens, honeypot_cache,
                    simulation_trades_log, real_trades_log, clockVars, eval, liq,
                    last_swap, last_exit >>

\* the safety oracle has answered (or failed): the result is cached and kept
OracleDone(p, reply) ==
    /\ cand[p].pc = "oracle"
    /\ LET info == HoneypotResult(reply) IN
       /\ honeypot_cache' = CacheStore(honeypot_cache, cand[p].token, info)
       /\ cand' = [cand EXCEPT ![p] =
              [pc |-> "quotes", token |-> cand[p].token, price |-> cand[p].price,
               creators |-> cand[p].creators, info |-> info]]
    /\ UNCHANGED << modeVars, optimizer, bgVars, realtime_analyzer, paramVars, capitalVars, held_tokens,
                    simulation_trades_log, real_trades_log, clockVars, eval, liq,
                    last_swap, last_exit >>

\* the liquidity and sellability quotes have answered: gather returns and the
\* task suspends on get_wallet_status
QuotesDone(p, has_liquidity, is_sellable) ==
    /\ cand[p].pc = "quotes"
    /\ cand' = [cand EXCEPT ![p] =
          [pc |-> "wallet", token |-> cand[p].token, price |-> cand[p].price,
           creators |-> cand[p].creators, info |-> cand[p].info,
           has_liquidity |-> has_liquidity, is_sellable |-> is_sellable]]
    /\ UNCHANGED << modeVars, optimizer, bgVars, realtime_analyzer, paramVars, capitalVars, held_tokens, honeypot_cache,
                    simulation_trades_log, real_trades_log, clockVars, eval, liq,
                    last_swap, last_exit >>

\* get_wallet_status has answered: the synchronous checks run and, when all
\* pass, execute_buy is called with the buy amount of this moment and the task
\* suspends on it.
WalletDone(p, balance) ==
    /\ cand[p].pc = "wallet"
    /\ LET verdict == EntryVerdict(WalletStatus(balance), cand[p].token,
                                   cand[p].info, cand[p].has_liquidity,
                                   cand[p].is_sellable) IN
       /\ cand' = [cand EXCEPT ![p] =
              IF verdict = "none"
              THEN [pc |-> "buy", token |-> cand[p].token, price |-> cand[p].price,
                    creators |-> cand[p].creators, amount |-> buy_amount_sol]
              ELSE Idle]
    /\ UNCHANGED << modeVars, optimizer, bgVars, realtime_analyzer, paramVars, capitalVars, held_tokens, honeypot_cache,
                    simulation_trades_log, real_trades_log, clockVars, eval, liq,
                    last_swap, last_exit >>

\* `if success:` tests the dict execute_buy returned
BuyAccepted(result) == Truthy(result)

\* execute_buy has returned: the position is written and the buy journaled
BuyDone(p, ok) ==
    /\ cand[p].pc = "buy"
    /\ ok \in BuyOutcomes
    /\ IF BuyAccepted(BuyResult(ok))
       THEN /\ held_tokens' = Put(held_tokens, cand[p].token,
                                  NewPosition(cand[p].price, buy_amount_sol,
                                              cand[p].creators, now))
            /\ realtime_analyzer' =
                  StartMonitoring(realtime_analyzer, cand[p].token)
            /\ real_trades_log' =
                  Append(real_trades_log,
                         TradeRecord("buy", cand[p].token, cand[p].price))
       ELSE UNCHANGED << held_tokens, real_trades_log, realtime_analyzer >>
    /\ last_swap' = [op |-> "buy", token |-> cand[p].token, success |-> ok]
    /\ cand' = [cand EXCEPT ![p] = Idle]
    /\ UNCHANGED << modeVars, optimizer, bgVars, paramVars, capitalVars, honeypot_cache,
                    simulation_trades_log, clockVars, eval, liq, last_exit >>

\* ------------------------------------------------- parameters and capital
\* set_realtime_analyzer(analyzer) with a new RealTimeAnalyzer
SetRealtimeAnalyzer ==
    /\ realtime_analyzer' = NewAnalyzer
    /\ UNCHANGED << modeVars, optimizer, bgVars, paramVars, capitalVars,
                    held_tokens, honeypot_cache, simulation_trades_log,
                    real_trades_log, clockVars, cand, eval, liq, last_swap,
                    last_exit >>

\* set_param(key, value): setattr without validation (callers in main.py use
\* the three engine parameters)
SetParam(key, value) ==
    /\ buy_amount_sol' = IF key = "buy_amount_sol" THEN value ELSE buy_amount_sol
    /\ sell_multiplier' = IF key = "sell_multiplier" THEN value ELSE sell_multiplier
    /\ trailing_stop_percent' =
          IF key = "trailing_stop_percent" THEN value ELSE trailing_stop_percent
    /\ UNCHANGED << modeVars, optimizer, bgVars, realtime_analyzer, capitalVars, held_tokens, honeypot_cache,
                    simulation_trades_log, real_trades_log, clockVars, cand, eval,
                    liq, last_swap, last_exit >>

\* mutant: the amount is taken off the capital instead of replacing it
SetInitialCapital_Debit(amount) ==
    /\ capital' = capital - amount
    /\ available_capital' = available_capital - amount
    /\ UNCHANGED << modeVars, optimizer, bgVars, realtime_analyzer, paramVars, held_tokens, honeypot_cache,
                    simulation_trades_log, real_trades_log, clockVars, cand, eval,
                    liq, last_swap, last_exit >>

SetInitialCapital(amount) ==
    /\ capital' = amount
    /\ available_capital' = amount
    /\ UNCHANGED << modeVars, optimizer, bgVars, realtime_analyzer, paramVars, held_tokens, honeypot_cache,
                    simulation_trades_log, real_trades_log, clockVars, cand, eval,
                    liq, last_swap, last_exit >>

\* time passes
Tick(d) ==
    /\ ticks < MaxTicks
    /\ now' = now + d
    /\ ticks' = ticks + 1
    /\ UNCHANGED << modeVars, optimizer, bgVars, realtime_analyzer, paramVars, capitalVars, held_tokens, honeypot_cache,
                    simulation_trades_log, real_trades_log, cand, eval, liq,
                    last_swap, last_exit >>

\* ------------------------------------------- evaluate_held_tokens_for_sale
\* mutant: sells as soon as the price is not below the buy price
TakeProfitHit_AnyGain(pos, price) == price >= pos.buy_price

\* profit_multiplier >= self.sell_multiplier, with profit_multiplier =
\* current_price / buy_price (buy_price # 0 here)
TakeProfitHit(pos, price) == price * 100 >= sell_multiplier * pos.buy_price

\* mutant: max_price follows the current price without the comparison
RunningMax_LastPrice(pos, price) == price

\* the max_price the trailing-stop section leaves in the position
RunningMax(pos, price) ==
    LET base == IF HasMaxPrice(pos) THEN pos.max_price ELSE pos.buy_price
    IN IF price > base THEN price ELSE base

\* mutant: the stop also fires at the threshold itself
TrailingStopHit_AtThreshold(max_price, price) ==
    price * 100 <= max_price * (100 - trailing_stop_percent)

\* current_price < max_price * (1 - trailing_stop_percent)
TrailingStopHit(max_price, price) ==
    price * 100 < max_price * (100 - trailing_stop_percent)

\* the price _execute_sale journals in simulation mode
SimSalePrice(pos) == (pos.buy_price * sell_multiplier) \div 100

ExitDecision(kind, token, price) ==
    [kind |-> kind, token |-> token, price |-> price,
     flip |-> IF last_exit.kind = "none" THEN TRUE ELSE ~last_exit.flip]

\* _execute_sale called by the exit evaluation for a token of dict h.
\* mutant: the sale goes to the gateway in either mode
StartSale_AlwaysGateway(kind, token, price, h) ==
    [held |-> h,
     sim |-> simulation_trades_log,
     eval |-> [pc |-> "selling", token |-> token, kind |-> kind,
               price |-> price, amount |-> Get(h, token).buy_amount],
     exit |-> ExitDecision(kind, token, price)]

\* Simulation: the sale is journaled at buy_price * sell_multiplier and the
\* position deleted, without suspending (the creator-cache code that follows
\* a take-profit then reads the deleted position: KeyError, logged).
\* Real: execute_sell is called with the held amount and the task suspends.
StartSale(kind, token, price, h) ==
    IF simulation_mode
    THEN [held |-> Del(h, token),
          sim |-> Append(simulation_trades_log,
                         TradeRecord("sell", token, SimSalePrice(Get(h, token)))),
          eval |-> Idle,
          exit |-> ExitDecision(kind, token, price)]
    ELSE [held |-> h,
          sim |-> simulation_trades_log,
          eval |-> [pc |-> "selling", token |-> token, kind |-> kind,
                    price |-> price, amount |-> Get(h, token).buy_amount],
          exit |-> ExitDecision(kind, token, price)]

NoSale(h, ev) ==
    [held |-> h, sim |-> simulation_trades_log, eval |-> ev, exit |-> last_exit]

\* mutant: the trailing stop is tested before the take profit
EvalOutcome_TrailingFirst(token, price, whale_selling) ==
    IF ~Has(held_tokens, token) THEN NoSale(held_tokens, Idle)
    ELSE LET pos == Get(held_tokens, token) IN
      IF pos.buy_price = 0 THEN NoSale(held_tokens, Idle)
      ELSE LET m == RunningMax(pos, price)
               h1 == Put(held_tokens, token, WithMaxPrice(pos, m))
           IN IF TrailingStopHit(m, price)
              THEN StartSale("trailing_stop", token, price, h1)
              ELSE IF TakeProfitHit(pos, price)
              THEN StartSale("take_profit", token, price, held_tokens)
              ELSE IF whale_selling THEN StartSale("dump", token, price, h1)
              ELSE IF pos.creator_wallets = << >> THEN NoSale(h1, Idle)
              ELSE NoSale(h1, [pc |-> "creator_check", token |-> token,
                               price |-> price])

\* the body of evaluate_held_tokens_for_sale up to its first suspension
EvalOutcome(token, price, whale_selling) ==
    IF ~Has(held_tokens, token) THEN NoSale(held_tokens, Idle)
    ELSE LET pos == Get(held_tokens, token) IN
      IF pos.buy_price = 0 THEN NoSale(held_tokens, Idle)  \* ZeroDivisionError
      ELSE IF TakeProfitHit(pos, price)
      THEN StartSale("take_profit", token, price, held_tokens)
      ELSE LET m == RunningMax(pos, price)
               h1 == Put(held_tokens, token, WithMaxPrice(pos, m))
           IN IF TrailingStopHit(m, price)
              THEN StartSale("trailing_stop", token, price, h1)
              ELSE IF whale_selling THEN StartSale("dump", token, price, h1)
              ELSE IF pos.creator_wallets = << >> THEN NoSale(h1, Idle)
              ELSE NoSale(h1, [pc |-> "creator_check", token |-> token,
                               price |-> price])

Evaluate(token, price, whale_selling) ==
    /\ eval.pc = "idle"
    /\ JournalRoom
    /\ LET out == EvalOutcome(token, price, whale_selling) IN
       /\ held_tokens' = out.held
       /\ simulation_trades_log' = out.sim
       /\ eval' = out.eval
       /\ last_exit' = out.exit
    /\ UNCHANGED << modeVars, optimizer, bgVars, realtime_analyzer, paramVars, capitalVars, honeypot_cache,
                    real_trades_log, clockVars, cand, liq, last_swap >>

\* _creator_wallet_selling has answered; a sale of a position that vanished
\* meanwhile raises KeyError inside _execute_sale, which logs it
CreatorCheckDone(selling) ==
    /\ eval.pc = "creator_check"
    /\ LET out == IF selling /\ Has(held_tokens, eval.token)
                  THEN StartSale("dump", eval.token, eval.price, held_tokens)
                  ELSE NoSale(held_tokens, Idle) IN
       /\ held_tokens' = out.held
       /\ simulation_trades_log' = out.sim
       /\ eval' = out.eval
       /\ last_exit' = out.exit
    /\ UNCHANGED << modeVars, optimizer, bgVars, realtime_analyzer, paramVars, capitalVars, honeypot_cache,
                    real_trades_log, clockVars, cand, liq, last_swap >>

\* _execute_sale (real mode) after execute_sell returned `result`, for dict h
\* and journal log: the sale is journaled, then the position deleted (a
\* position that vanished meanwhile raises KeyError after the journal write).
\* ret is what _execute_sale returns: the sell price, or None.
FinishSale(token, result, h, log) ==
    IF result.success
    THEN [held |-> Del(h, token),
          real |-> Append(log, TradeRecord("sell", token, result.sell_price_sol)),
          ret |-> IF Has(h, token)
                  THEN [none |-> FALSE, price |-> result.sell_price_sol]
                  ELSE [none |-> TRUE]]
    ELSE [held |-> h, real |-> log, ret |-> [none |-> TRUE]]

EvalSellDone(result) ==
    /\ eval.pc = "selling"
    /\ result \in SellOutcomes
    /\ LET out == FinishSale(eval.token, result, held_tokens, real_trades_log) IN
       /\ held_tokens' = out.held
       /\ real_trades_log' = out.real
    /\ realtime_analyzer' = IF result.success
                            THEN StopMonitoring(realtime_analyzer, eval.token)
                            ELSE realtime_analyzer
    /\ last_swap' = [op |-> "sell", token |-> eval.token, success |-> result.success]
    /\ eval' = Idle
    /\ UNCHANGED << modeVars, optimizer, bgVars, paramVars, capitalVars, honeypot_cache,
                    simulation_trades_log, clockVars, cand, liq, last_exit >>


\* --------------------------------------------------------- sell_all_tokens
\* the price of the record sell_all_tokens writes after _execute_sale returned
\* ret:  sell_price if sell_price else held_tokens.get(token, {}).get("buy_price", 0)
ForcedPrice(ret, h, token) ==
    IF ~ret.none /\ ret.price # 0 THEN ret.price
    ELSE IF Has(h, token) THEN Get(h, token).buy_price ELSE 0

\* simulation mode: _execute_sale never suspends, so the loop over the
\* snapshot of the keys runs to its end in one step
RECURSIVE LiquidateSim(_, _, _, _)
LiquidateSim(todo, h, sim, real) ==
    IF todo = << >> THEN [held |-> h, sim |-> sim, real |-> real, liq |-> Idle]
    ELSE LET token == Head(todo)
             price == SimSalePrice(Get(h, token))
             h1 == Del(h, token)
         IN LiquidateSim(Tail(todo), h1,
                Append(sim, TradeRecord("sell", token, price)),
                Append(real, ForcedRecord(token,
                    ForcedPrice([none |-> FALSE, price |-> price], h1, token))))

\* real mode: the loop runs until _execute_sale suspends on execute_sell.  A
\* token of the snapshot that is no longer held raises KeyError inside
\* _execute_sale, which returns None, and the forced record is written anyway.
RECURSIVE LiquidateReal(_, _, _)
LiquidateReal(todo, h, real) ==
    IF todo = << >>
    THEN [held |-> h, sim |-> simulation_trades_log, real |-> real, liq |-> Idle]
    ELSE IF Has(h, Head(todo))
    THEN [held |-> h, sim |-> simulation_trades_log, real |-> real,
          liq |-> [pc |-> "selling", token |-> Head(todo), todo |-> Tail(todo),
                   amount |-> Get(h, Head(todo)).buy_amount]]
    ELSE LiquidateReal(Tail(todo), h,
            Append(real, ForcedRecord(Head(todo),
                ForcedPrice([none |-> TRUE], h, Head(todo)))))

LiquidateLoop(todo, h, real) ==
    IF simulation_mode
    THEN LiquidateSim(todo, h, simulation_trades_log, real)
    ELSE LiquidateReal(todo, h, real)

\* sell_all_tokens is called: the keys are snapshotted and the loop starts
SellAllTokens ==
    /\ liq.pc = "idle"
    /\ JournalRoom
    /\ LET out == LiquidateLoop(Keys(held_tokens), held_tokens, real_trades_log) IN
       /\ held_tokens' = out.held
       /\ simulation_trades_log' = out.sim
       /\ real_trades_log' = out.real
       /\ liq' = out.liq
    /\ UNCHANGED << modeVars, optimizer, bgVars, realtime_analyzer, paramVars, capitalVars, honeypot_cache, clockVars,
                    cand, eval, last_swap, last_exit >>

\* execute_sell has returned to the _execute_sale of sell_all_tokens: the sale
\* is finished, the forced record written, and the loop goes on
LiqSellDone(result) ==
    /\ liq.pc = "selling"
    /\ result \in SellOutcomes
    /\ LET sale == FinishSale(liq.token, result, held_tokens, real_trades_log)
           forced == Append(sale.real, ForcedRecord(liq.token,
                                ForcedPrice(sale.ret, sale.held, liq.token)))
           out == LiquidateLoop(liq.todo, sale.held, forced)
       IN /\ held_tokens' = out.held
          /\ simulation_trades_log' = out.sim
          /\ real_trades_log' = out.real
          /\ liq' = out.liq
    /\ realtime_analyzer' = IF result.success
                            THEN StopMonitoring(realtime_analyzer, liq.token)
                            ELSE realtime_analyzer
    /\ last_swap' = [op |-> "sell", token |-> liq.token, success |-> result.success]
    /\ UNCHANGED << modeVars, optimizer, bgVars, paramVars, capitalVars, honeypot_cache, clockVars,
                    cand, eval, last_exit >>

\* --------------------------------------------------------------- optimizer
Max(a, b) == IF a > b THEN a ELSE b

Min(a, b) == IF a < b THEN a ELSE b

\* a float product x * (pct / 100), rounded down to the unit of the model
Scale(x, pct) == (x * pct) \div 100

\* Lines of logs/simulation_trades.log that log_trade did not write whole: a
\* line that json.loads rejects, a JSON number, and a buy record cut short
UnparseableLine == [json |-> "invalid"]

NumberLine == [json |-> "number"]

BuyWithoutPrice == [action |-> "buy", token |-> "X"]

\* _read_log: the lines json.loads accepts, in file order
ReadLog(file) == SelectSeq(file, LAMBDA line : line # UnparseableLine)

\* entry.get('action')
ActionOf(entry) == IF "action" \in DOMAIN entry THEN entry.action ELSE "none"

\* the loop over the entries raises: entry.get on a value that is not a dict
\* (AttributeError), or entry['token'] / entry['price'] on a dict without the
\* key (KeyError)
Raises(trades) ==
    \E i \in 1..Len(trades) :
        LET entry == trades[i] IN
        \/ entry = NumberLine
        \/ /\ ActionOf(entry) = "buy"
           /\ ~({"token", "price"} \subseteq DOMAIN entry)
        \/ /\ ActionOf(entry) = "sell"
           /\ \/ "token" \notin DOMAIN entry
              \/ /\ "price" \notin DOMAIN entry
                 /\ \E j \in 1..(i - 1) :
                        /\ ActionOf(trades[j]) = "buy"
                        /\ "token" \in DOMAIN trades[j]
                        /\ trades[j].token = entry.token

\* the loop shared by _compute_profit, _compute_stats and _compute_drawdown:
\* the profit of every sell whose token has an earlier buy, in file order
RECURSIVE ProfitsFrom(_, _, _)
ProfitsFrom(trades, i, buy_prices) ==
    IF i > Len(trades) THEN << >>
    ELSE LET entry == trades[i] IN
         IF ActionOf(entry) = "buy"
         THEN ProfitsFrom(trades, i + 1, (entry.token :> entry.price) @@ buy_prices)
         ELSE IF ActionOf(entry) = "sell" /\ entry.token \in DOMAIN buy_prices
         THEN << entry.price - buy_prices[entry.token] >>
              \o ProfitsFrom(trades, i + 1, buy_prices)
         ELSE ProfitsFrom(trades, i + 1, buy_prices)

RealizedProfits(trades) == ProfitsFrom(trades, 1, << >>)

RECURSIVE SumSeq(_)
SumSeq(q) == IF q = << >> THEN 0 ELSE Head(q) + SumSeq(Tail(q))

ComputeProfit(trades) == SumSeq(RealizedProfits(trades))

\* winrate as the fraction n / d (0 when there is no trade), and the sign test
\* of avg_profit
ComputeStats(trades) ==
    LET profits == RealizedProfits(trades)
        wins == Cardinality({i \in 1..Len(profits) : profits[i] > 0})
    IN [n |-> wins,
        d |-> IF Len(profits) > 0 THEN Len(profits) ELSE 1,
        avg_positive |-> SumSeq(profits) > 0]

\* max over the trades of (peak - equity) / peak, as a fraction n / d
RECURSIVE DrawdownFrom(_, _, _, _, _)
DrawdownFrom(profits, i, equity, peak, max_dd) ==
    IF i > Len(profits) THEN max_dd
    ELSE LET e == equity + profits[i]
             pk == Max(peak, e)
             dd == IF pk > 0 THEN [n |-> pk - e, d |-> pk] ELSE [n |-> 0, d |-> 1]
         IN DrawdownFrom(profits, i + 1, e, pk,
                         IF dd.n * max_dd.d > max_dd.n * dd.d THEN dd ELSE max_dd)

ComputeDrawdown(trades) ==
    DrawdownFrom(RealizedProfits(trades), 1, 0, 0, [n |-> 0, d |-> 1])

\* fraction f compared with pct / 100
Above(f, pct) == f.n * 100 > pct * f.d

Below(f, pct) == f.n * 100 < pct * f.d

EngineParams == BestParams(buy_amount_sol, sell_multiplier)

\* self.strategy_profiles: conservateur, agressif, equilibre
StrategyProfiles ==
    << [buy_factor |-> 80, sell_add |-> 10],
       [buy_factor |-> 120, sell_add |-> -5],
       [buy_factor |-> 100, sell_add |-> 0] >>

\* mutant: memorizes the profit of every tick
MemorizedProfit_Always(best_profit, sim_profit) == sim_profit

\* if self.sim_profit > self.best_profit: self.best_profit = self.sim_profit
MemorizedProfit(best_profit, sim_profit) ==
    IF sim_profit > best_profit THEN sim_profit ELSE best_profit

\* mutant: parameters are memorized only while none are memorized
MemorizedParams_FirstOnly(best_params, best_profit, sim_profit, params) ==
    IF sim_profit > best_profit /\ ~Truthy(best_params) THEN params ELSE best_params

\* self.best_params = {buy_amount_sol, sell_multiplier} of the decision module
MemorizedParams(best_params, best_profit, sim_profit, params) ==
    IF sim_profit > best_profit THEN params ELSE best_params

\* mutant: a frozen optimizer is released only by the win rate
FreezeTransition_WinrateOnly(freeze, winrate, drawdown, sim_profit, best_profit) ==
    LET f1 == \/ freeze
              \/ (Above(winrate, 70) /\ Below(drawdown, 10) /\ sim_profit > 50)
    IN f1 /\ ~Below(winrate, 60)

\* the two freeze tests, applied one after the other
FreezeTransition(freeze, winrate, drawdown, sim_profit, best_profit) ==
    LET f1 == \/ freeze
              \/ (Above(winrate, 70) /\ Below(drawdown, 10) /\ sim_profit > 50)
    IN f1 /\ ~(\/ Below(winrate, 60)
               \/ Above(drawdown, 15)
               \/ sim_profit * 10 < best_profit * 8)

\* exploration of the next strategy profile
SwitchProfile(params, profile) ==
    LET prof == StrategyProfiles[profile + 1] IN
    BestParams(Max(MinBuyAmount, Scale(params.buy_amount_sol, prof.buy_factor)),
               Min(MaxSellMultiplier,
                   Max(MinSellMultiplier, params.sell_multiplier + prof.sell_add)))

\* the "ajustement dynamique classique": drawdown, low win rate, high win rate
ClassicAdjust(params, stats, drawdown) ==
    IF Above(drawdown, 20)
    THEN BestParams(Max(MinBuyAmount, Scale(params.buy_amount_sol, 80)),
                    Min(MaxSellMultiplier, params.sell_multiplier + 10))
    ELSE IF Below(stats, 40)
    THEN BestParams(Max(MinBuyAmount, Scale(params.buy_amount_sol, 90)),
                    params.sell_multiplier)
    ELSE IF Above(stats, 70) /\ stats.avg_positive
    THEN BestParams(Min(MaxBuyAmount, Scale(params.buy_amount_sol, 110)),
                    params.sell_multiplier)
    ELSE params

\* random mutation of buy_amount_sol by the factor drawn from uniform(0.95, 1.05)
AutoTune(params, factor) ==
    BestParams(Max(MinBuyAmount, Scale(params.buy_amount_sol, factor)),
               params.sell_multiplier)

RollbackDue(best_params, best_profit, sim_profit, freeze) ==
    Truthy(best_params) /\ sim_profit * 10 < best_profit * 5 /\ ~freeze

\* "recovery mode" after three ticks of falling profit
Recovery(params) ==
    BestParams(Max(MinBuyAmount, Scale(params.buy_amount_sol, 70)),
               Min(MaxSellMultiplier, params.sell_multiplier + 20))

\* draws of random.random() < 0.15, random.random() < 0.1 and random.uniform
Rotations == BOOLEAN

\* _save_best_params: the file is rewritten, or open() raises, which is logged
\* and leaves the file as it was
SaveOutcomes == {"written", "failed"}

SaveBestParams(file, outcome, params, profit) ==
    IF outcome = "written" THEN ParamFile(params, profit) ELSE file

TuneFactors == {0, 105}     \* 0: no mutation on this tick

\* mutant: the random exploration is applied whether frozen or not
Mutations_TuneWhenFrozen(freeze, rotate, factor, params, profile, stats, drawdown) ==
    LET p1 == IF ~freeze /\ rotate THEN SwitchProfile(params, profile) ELSE params
        p2 == IF ~freeze THEN ClassicAdjust(p1, stats, drawdown) ELSE p1
    IN IF factor # 0 THEN AutoTune(p2, factor) ELSE p2

\* the block under `if not self.freeze:`: profile rotation, then the classic
\* adjustment, then the random exploration, each on the result of the last
Mutations(freeze, rotate, factor, params, profile, stats, drawdown) ==
    IF freeze THEN params
    ELSE LET p1 == IF rotate THEN SwitchProfile(params, profile) ELSE params
             p2 == ClassicAdjust(p1, stats, drawdown)
         IN IF factor # 0 THEN AutoTune(p2, factor) ELSE p2

\* analyze_and_adjust with _check_and_apply_rollback: local computation on the
\* journal file and the engine parameters, taken as one step of the optimizer
\* thread.
Analyze(rotate, factor, save) ==
    /\ optimizer.ticks_done < MaxOptTicks
    /\ ~Raises(ReadLog(simulation_trades_log))
    /\ LET trades == ReadLog(simulation_trades_log)
           sim_profit == ComputeProfit(trades)
           stats == ComputeStats(trades)
           drawdown == ComputeDrawdown(trades)
           best_profit == MemorizedProfit(optimizer.best_profit, sim_profit)
           best_params == MemorizedParams(optimizer.best_params,
                                          optimizer.best_profit, sim_profit,
                                          EngineParams)
           freeze == FreezeTransition(optimizer.freeze, stats, drawdown,
                                      sim_profit, best_profit)
           profile == IF ~freeze /\ rotate
                      THEN (optimizer.current_profile + 1) % Len(StrategyProfiles)
                      ELSE optimizer.current_profile
           p3 == Mutations(freeze, rotate, factor, EngineParams, profile,
                           stats, drawdown)
           rollback == RollbackDue(best_params, best_profit, sim_profit, freeze)
           p4 == IF rollback THEN best_params ELSE p3
           loss_streak == IF sim_profit < optimizer.last_profit
                          THEN optimizer.loss_streak + 1
                          ELSE IF sim_profit > optimizer.last_profit THEN 0
                          ELSE optimizer.loss_streak
           win_streak == IF sim_profit < optimizer.last_profit THEN 0
                         ELSE IF sim_profit > optimizer.last_profit
                         THEN optimizer.win_streak + 1
                         ELSE optimizer.win_streak
           p5 == IF loss_streak >= 3 /\ ~freeze THEN Recovery(p4) ELSE p4
       IN /\ optimizer' = [best_params    |-> best_params,
                           best_profit    |-> best_profit,
                           freeze         |-> freeze,
                           rollback_count |-> optimizer.rollback_count
                                              + (IF rollback THEN 1 ELSE 0),
                           loss_streak    |-> loss_streak,
                           win_streak     |-> win_streak,
                           last_profit    |-> sim_profit,
                           current_profile |-> profile,
                           ticks_done     |-> optimizer.ticks_done + 1]
          /\ buy_amount_sol' = p5.buy_amount_sol
          /\ sell_multiplier' = p5.sell_multiplier
          /\ param_file' = IF sim_profit > optimizer.best_profit
                           THEN SaveBestParams(param_file, save, best_params,
                                               best_profit)
                           ELSE param_file
    /\ UNCHANGED << modeVars, successful_creator_cache, scanner, last_pool,
                    realtime_analyzer, trailing_stop_percent,
                    capitalVars, held_tokens, honeypot_cache,
                    simulation_trades_log, real_trades_log,
                    clockVars, cand, eval, liq, last_swap, last_exit >>

\* One round of the optimizer thread (_run) while nothing stops the bot: the
\* test of the loop, the sleep and the tick, taken together.
AnalyzeAndAdjust(rotate, factor, save) ==
    /\ simulation_mode
    /\ life.running
    /\ life.opt = "loop"
    /\ Analyze(rotate, factor, save)
    /\ UNCHANGED life

\* --------------------------------------------------------------- lifecycle
\* a logsNotification: value.signature (absent, not a base58 signature, or a
\* signature) and value.logs, each line given by the instruction it names
NoSignature == "none"
BadSignature == "bad"
Notifications ==
    [signature : {NoSignature, BadSignature, "s1"},
     logs : {<< >>, << "Transfer" >>, << "Transfer", "InitializeAccount" >>,
             << "InitializeAccount3" >>}]

\* "Instruction: InitializeAccount" in log
MentionsInitializeAccount(log) == log \in {"InitializeAccount", "InitializeAccount3"}

\* any(... for log in logs) and `if signature:`
IsCandidateNotification(note) ==
    /\ \E i \in 1..Len(note.logs) : MentionsInitializeAccount(note.logs[i])
    /\ note.signature # NoSignature

\* the instructions of a fetched transaction: the program, the decoded data
\* ("initialize2": starts with the discriminant; "other"; "undecodable":
\* base58.b58decode(ix.data) raises) and the accounts at offsets 8 and 9
Instructions ==
    { [program |-> "other", data |-> "initialize2", m8 |-> "X", m9 |-> SOL_MINT],
      [program |-> "other", data |-> "undecodable", m8 |-> "X", m9 |-> SOL_MINT],
      [program |-> "raydium", data |-> "other", m8 |-> SOL_MINT, m9 |-> "X"],
      [program |-> "raydium", data |-> "initialize2", m8 |-> SOL_MINT, m9 |-> "X"],
      [program |-> "raydium", data |-> "initialize2", m8 |-> "Y", m9 |-> SOL_MINT],
      [program |-> "raydium", data |-> "initialize2", m8 |-> "X", m9 |-> "Y"] }

\* get_transaction: no transaction, or its account keys (does one of them
\* equal RAYDIUM_LP_V4) and its top-level instructions
NoTransaction == [missing |-> TRUE]

MaxInstructions == 2

Transactions ==
    {NoTransaction} \cup
    { [missing |-> FALSE, mentions_raydium |-> m, instructions |-> ixs] :
          m \in BOOLEAN,
          ixs \in UNION { [1..n -> Instructions] : n \in 0..MaxInstructions } }

\* mutant: a pair without SOL forwards its first mint
NewTokenMint_NoBaseCheck(token0_mint, token1_mint) ==
    IF token0_mint = SOL_MINT THEN token1_mint ELSE token0_mint

\* the mint of the pair that is not SOL; a pair without SOL is skipped
NewTokenMint(token0_mint, token1_mint) ==
    IF token0_mint = SOL_MINT THEN token1_mint
    ELSE IF token1_mint = SOL_MINT THEN token0_mint
    ELSE NoMint

\* `for ix in instructions`: the first initialize2 instruction of the Raydium
\* program decides; an exception ends the task with nothing forwarded
RECURSIVE ScanInstructions(_, _)
ScanInstructions(ixs, i) ==
    IF i > Len(ixs) THEN NoMint
    ELSE IF ixs[i].data = "undecodable" THEN NoMint
    ELSE IF ixs[i].program = "raydium" /\ ixs[i].data = "initialize2"
    THEN NewTokenMint(ixs[i].m8, ixs[i].m9)
    ELSE ScanInstructions(ixs, i + 1)

\* the mint process_new_pool forwards for a fetched transaction, if any
ForwardedMint(tx) ==
    IF tx.missing THEN NoMint
    ELSE IF ~tx.mentions_raydium THEN NoMint
    ELSE ScanInstructions(tx.instructions, 1)

\* NewPairScanner._listen has received a logsNotification.  For a log of a
\* token account creation with a signature process_new_pool is spawned with
\* create_task; it returns at once when the signature does not parse and
\* otherwise suspends on get_transaction.  (Notifications that arrive between
\* stop() and the end of the close of the connection are left out.)
PoolDetected(p, note) ==
    /\ life.running
    /\ scanner.pc = "listen"
    /\ cand[p].pc = "idle"
    /\ cand' = [cand EXCEPT ![p] =
          IF IsCandidateNotification(note) /\ note.signature # BadSignature
          THEN [pc |-> "pool", note |-> note]
          ELSE Idle]
    /\ UNCHANGED << modeVars, optimizer, bgVars, realtime_analyzer, paramVars, capitalVars, held_tokens,
                    honeypot_cache, simulation_trades_log, real_trades_log,
                    clockVars, eval, liq, last_swap, last_exit >>

\* get_transaction has answered process_new_pool: the task awaits
\* process_new_token_candidate(mint, current_price=0.0) for the mint of a new
\* Raydium pool against SOL, and otherwise returns.
PoolFetched(p, tx) ==
    /\ cand[p].pc = "pool"
    /\ last_pool' = [tx |-> tx, forwarded |-> ForwardedMint(tx)]
    /\ IF ForwardedMint(tx) # NoMint
       THEN EnterCandidate(p, ForwardedMint(tx), 0)
       ELSE /\ cand' = [cand EXCEPT ![p] = Idle]
            /\ UNCHANGED << modeVars, optimizer, param_file,
                            successful_creator_cache, life, scanner,
                            realtime_analyzer, paramVars,
                            capitalVars, held_tokens, honeypot_cache,
                            simulation_trades_log, real_trades_log, clockVars,
                            eval, liq, last_swap, last_exit >>

\* the variables a step of the scanner's connection loop leaves alone
scannerRest == << modeVars, optimizer, param_file, successful_creator_cache,
                  life, last_pool, realtime_analyzer, paramVars, capitalVars, held_tokens, honeypot_cache,
                  simulation_trades_log, real_trades_log, clockVars, cand,
                  eval, liq, last_swap, last_exit >>

\* start: `while self.running` after _listen returned or a backoff ended
LoopTest == IF life.running THEN [pc |-> "connect"] ELSE [pc |-> "done"]

\* _listen: websockets.connect and the send of logsSubscribe.  "open": the
\* request is sent and the task awaits the first message; "closed": the peer
\* closes during the handshake or the send (ConnectionClosed); "refused": any
\* other exception (OSError, InvalidURI, InvalidStatus, ...).
ConnectOutcomes == {"open", "closed", "refused"}

ScanConnect(outcome) ==
    /\ scanner.pc = "connect"
    /\ scanner' = CASE outcome = "open" -> [pc |-> "subscribe"]
                    [] outcome = "closed" -> [pc |-> "sleep5"]
                    [] OTHER -> [pc |-> "sleep10"]
    /\ UNCHANGED scannerRest

\* _listen: the first message.  "id": 'result' is an int; "rejected": a JSON
\* object without an int 'result' (_listen logs and returns); "closed":
\* ws.recv raises ConnectionClosed; "malformed": json.loads raises, or the
\* JSON value does not support `in`.
AckReplies == {"id", "rejected", "closed", "malformed"}

ScanAck(reply) ==
    /\ scanner.pc = "subscribe"
    /\ scanner' = CASE reply = "id" -> [pc |-> "listen"]
                    [] reply = "rejected" -> LoopTest
                    [] reply = "closed" -> [pc |-> "sleep5"]
                    [] OTHER -> [pc |-> "sleep10"]
    /\ UNCHANGED scannerRest

\* _listen: the end of `async for message in ws`.  "closed_ok": the iterator
\* of the websockets library ends without an exception on a close with code
\* 1000 or 1001 (also the close that stop() schedules), and _listen returns;
\* "closed_error": it raises ConnectionClosedError; "malformed": json.loads or
\* data.get raises on a message.
ListenEnds == {"closed_ok", "closed_error", "malformed"}

ScanEnd(kind) ==
    /\ scanner.pc = "listen"
    /\ scanner' = CASE kind = "closed_ok" -> LoopTest
                    [] kind = "closed_error" -> [pc |-> "sleep5"]
                    [] OTHER -> [pc |-> "sleep10"]
    /\ UNCHANGED scannerRest

\* start: asyncio.sleep(5) or asyncio.sleep(10) returns
ScanWake ==
    /\ scanner.pc \in {"sleep5", "sleep10"}
    /\ scanner' = LoopTest
    /\ UNCHANGED scannerRest

\* BotManager.stop: pair_scanner.stop() and ai_optimizer.stop() clear their
\* running flags (and the close of the connection is scheduled); no task is
\* cancelled and the optimizer thread is not joined.
Stop ==
    /\ life.running
    /\ life' = [life EXCEPT !.running = FALSE]
    /\ UNCHANGED << modeVars, optimizer, param_file, successful_creator_cache, scanner,
                    last_pool, realtime_analyzer, paramVars,
                    capitalVars, held_tokens, honeypot_cache,
                    simulation_trades_log, real_trades_log, clockVars, cand,
                    eval, liq, last_swap, last_exit >>

\* _run: `while self.running` and the test of simulation_mode pass, and the
\* thread enters time.sleep(interval)
RunSleep ==
    /\ life.opt = "loop"
    /\ life.running
    /\ simulation_mode
    /\ life' = [life EXCEPT !.opt = "sleeping"]
    /\ UNCHANGED << modeVars, optimizer, param_file, successful_creator_cache, scanner,
                    last_pool, realtime_analyzer, paramVars,
                    capitalVars, held_tokens, honeypot_cache,
                    simulation_trades_log, real_trades_log, clockVars, cand,
                    eval, liq, last_swap, last_exit >>

\* _run: `while self.running` fails and the thread ends
RunExit ==
    /\ life.opt = "loop"
    /\ ~life.running
    /\ life' = [life EXCEPT !.opt = "done"]
    /\ UNCHANGED << modeVars, optimizer, param_file, successful_creator_cache, scanner,
                    last_pool, realtime_analyzer, paramVars,
                    capitalVars, held_tokens, honeypot_cache,
                    simulation_trades_log, real_trades_log, clockVars, cand,
                    eval, liq, last_swap, last_exit >>

\* _run: time.sleep returns and analyze_and_adjust is called
RunWake(rotate, factor, save) ==
    /\ life.opt = "sleeping"
    /\ Analyze(rotate, factor, save)
    /\ life' = [life EXCEPT !.opt = "loop"]

\* _run: time.sleep returns and analyze_and_adjust raises while it computes
\* the aggregates, before it has assigned anything; _run has no handler and
\* the optimizer thread ends with the exception
RunCrash ==
    /\ life.opt = "sleeping"
    /\ Raises(ReadLog(simulation_trades_log))
    /\ life' = [life EXCEPT !.opt = "crashed"]
    /\ UNCHANGED << modeVars, optimizer, param_file, successful_creator_cache, scanner,
                    last_pool, realtime_analyzer, paramVars,
                    capitalVars, held_tokens, honeypot_cache,
                    simulation_trades_log, real_trades_log, clockVars, cand,
                    eval, liq, last_swap, last_exit >>

\* ------------------------------------------------------------ specifications
PassingReply == OracleReply(FALSE, Taxes(15, 15), 50000, FALSE)

EntryPrices == {100, 150}

\* Race scenario: two concurrent candidate tasks for the same mint in the
\* exploration phase.
NextRace ==
    \/ \E p \in CandTasks, price \in EntryPrices : Candidate(p, "X", price)
    \/ \E p \in CandTasks : DetectDone(p, << >>)
    \/ \E p \in CandTasks, r \in {PassingReply, OracleUnavailable} : OracleDone(p, r)
    \/ \E p \in CandTasks, l \in BOOLEAN, s \in BOOLEAN : QuotesDone(p, l, s)
    \/ \E p \in CandTasks, b \in Balances : WalletDone(p, b)
    \/ \E p \in CandTasks, ok \in BOOLEAN : BuyDone(p, ok)
    \/ \E a \in Capitals : SetInitialCapital(a)

SpecRace == Init /\ [][NextRace]_vars

\* Entry scenario: one candidate task at a time, with every
\* answer of the safety oracle, of the quotes, of the wallet and of the
\* gateway, while the clock advances and the capital and the buy amount change.
NextEntry ==
    \/ \E price \in EntryPrices : Candidate("c1", "X", price)
    \/ \E c \in CreatorLists : DetectDone("c1", c)
    \/ \E r \in OracleReplies : OracleDone("c1", r)
    \/ \E l \in BOOLEAN, s \in BOOLEAN : QuotesDone("c1", l, s)
    \/ \E b \in Balances : WalletDone("c1", b)
    \/ \E ok \in BOOLEAN : BuyDone("c1", ok)
    \/ \E v \in BuyAmounts : SetParam("buy_amount_sol", v)
    \/ \E a \in Capitals : SetInitialCapital(a)
    \/ \E d \in TimeDeltas : Tick(d)

SpecEntry == Init /\ [][NextEntry]_vars

\* Exit scenario: one candidate task opens positions, prices are observed,
\* the exit parameters change, and sell_all_tokens runs, in both modes.
ExitEntryPrices == {0, 100}
ObservedPrices == {100, 150, 200}

NextExit ==
    \/ \E price \in ExitEntryPrices : Candidate("c1", "X", price)
    \/ \E c \in CreatorLists : DetectDone("c1", c)
    \/ OracleDone("c1", PassingReply)
    \/ \E l \in BOOLEAN, s \in BOOLEAN : QuotesDone("c1", l, s)
    \/ WalletDone("c1", 101)
    \/ \E ok \in BOOLEAN : BuyDone("c1", ok)
    \/ \E price \in ObservedPrices, w \in BOOLEAN : Evaluate("X", price, w)
    \/ \E selling \in BOOLEAN : CreatorCheckDone(selling)
    \/ \E r \in SellOutcomes : EvalSellDone(r)
    \/ SellAllTokens
    \/ \E r \in SellOutcomes : LiqSellDone(r)
    \/ \E v \in SellMultipliers : SetParam("sell_multiplier", v)
    \/ \E v \in TrailingStops : SetParam("trailing_stop_percent", v)
    \/ SetInitialCapital(100)

SpecExit == Init /\ [][NextExit]_vars

\* The optimizer over simulated trading: candidates and exit evaluations of
\* one mint, parameter updates from the API (set_param accepts every float),
\* and optimizer ticks.
ApiBuyAmounts == {2000}
ApiSellMultipliers == {50}

NextOptimizer ==
    \/ Candidate("c1", "X", 100)
    \/ Evaluate("X", 200, TRUE)
    \/ \E v \in ApiBuyAmounts : SetParam("buy_amount_sol", v)
    \/ \E v \in ApiSellMultipliers : SetParam("sell_multiplier", v)
    \/ \E rotate \in Rotations, factor \in TuneFactors :
          AnalyzeAndAdjust(rotate, factor, "written")

SpecOptimizer == InitOptimizer /\ [][NextOptimizer]_vars

\* The optimizer over simulated trading when the parameter file cannot always
\* be written.
NextPersist ==
    \/ Candidate("c1", "X", 100)
    \/ Evaluate("X", 200, TRUE)
    \/ \E v \in ApiBuyAmounts : SetParam("buy_amount_sol", v)
    \/ \E rotate \in Rotations, save \in SaveOutcomes :
          AnalyzeAndAdjust(rotate, 0, save)

SpecPersist == InitOptimizer /\ [][NextPersist]_vars

\* Parameter updates from the API (update_env_variable passes float(value) to
\* set_param), between simulated or real candidates.
PostedBuyAmounts == {5, 100, 3000}
PostedSellMultipliers == {50, 150, 300}
PostedTrailingStops == {0, 50, 100}

NextParams ==
    \/ \E v \in PostedBuyAmounts : SetParam("buy_amount_sol", v)
    \/ \E v \in PostedSellMultipliers : SetParam("sell_multiplier", v)
    \/ \E v \in PostedTrailingStops : SetParam("trailing_stop_percent", v)
    \/ Candidate("c1", "X", 100)

SpecParams == Init /\ [][NextParams]_vars


\* Priority scenario: a position is opened at 1.0, prices rise and fall, and
\* the take-profit multiple is changed between evaluations, so that one price
\* can satisfy the take-profit and the trailing-stop tests together.
PrioritySellMultipliers == {150, 250}
PriorityPrices == {150, 200}

NextPriority ==
    \/ Candidate("c1", "X", 100)
    \/ \E c \in CreatorLists : DetectDone("c1", c)
    \/ OracleDone("c1", PassingReply)
    \/ QuotesDone("c1", TRUE, TRUE)
    \/ WalletDone("c1", 101)
    \/ BuyDone("c1", TRUE)
    \/ \E price \in PriorityPrices, w \in BOOLEAN : Evaluate("X", price, w)
    \/ \E selling \in BOOLEAN : CreatorCheckDone(selling)
    \/ \E r \in SellOutcomes : EvalSellDone(r)
    \/ \E v \in PrioritySellMultipliers : SetParam("sell_multiplier", v)
    \/ SetInitialCapital(100)

SpecPriority == Init /\ [][NextPriority]_vars

\* Monitoring scenario: a real-time analyzer is attached, positions are opened
\* and watched, and they are sold by the exit rules or by sell_all_tokens.
NextMonitor ==
    \/ SetRealtimeAnalyzer
    \/ Candidate("c1", "X", 100)
    \/ DetectDone("c1", << >>)
    \/ OracleDone("c1", PassingReply)
    \/ QuotesDone("c1", TRUE, TRUE)
    \/ WalletDone("c1", 101)
    \/ \E ok \in BOOLEAN : BuyDone("c1", ok)
    \/ \E price \in ObservedPrices : Evaluate("X", price, FALSE)
    \/ \E r \in SellOutcomes : EvalSellDone(r)
    \/ SellAllTokens
    \/ \E r \in SellOutcomes : LiqSellDone(r)
    \/ SetInitialCapital(100)

SpecMonitor == Init /\ [][NextMonitor]_vars

\* the notification and the transaction of a new Raydium pool of X against SOL
PoolNotification == [signature |-> "s1", logs |-> << "InitializeAccount3" >>]

PoolTransaction ==
    [missing |-> FALSE, mentions_raydium |-> TRUE,
     instructions |-> << [program |-> "raydium", data |-> "initialize2",
                          m8 |-> SOL_MINT, m9 |-> "X"] >>]

\* Discovery scenario: the scanner subscribes, notifications of every shape
\* arrive and the transactions they name are fetched; the candidates that are
\* forwarded go their way.
NextDiscovery ==
    \/ ScanConnect("open")
    \/ ScanAck("id")
    \/ \E note \in Notifications : PoolDetected("c1", note)
    \/ \E tx \in Transactions : PoolFetched("c1", tx)
    \/ DetectDone("c1", << >>)
    \/ OracleDone("c1", PassingReply)
    \/ QuotesDone("c1", TRUE, TRUE)
    \/ WalletDone("c1", 101)

SpecDiscovery == Init /\ [][NextDiscovery]_vars

\* Journal scenario: the simulation journal found at the start holds whatever
\* an earlier lifetime or another writer left in it; simulated trades are
\* appended and the optimizer thread sleeps and ticks.
JournalLines ==
    {TradeRecord("buy", "X", 100), TradeRecord("sell", "X", 200),
     UnparseableLine, NumberLine, BuyWithoutPrice}

MaxFileLines == 2

JournalFiles == UNION { [1..n -> JournalLines] : n \in 0..MaxFileLines }

InitJournal ==
    /\ \E file \in JournalFiles : InitDecisionWith(file)
    /\ param_file = NoParamFile
    /\ optimizer = OptimizerInit(param_file)

NextJournal ==
    \/ Candidate("c1", "X", 100)
    \/ Evaluate("X", 200, TRUE)
    \/ RunSleep
    \/ \E rotate \in Rotations : RunWake(rotate, 0, "written")
    \/ RunCrash

SpecJournal == InitJournal /\ [][NextJournal]_vars

\* Stop scenario: pools are detected and fetched, the candidates go their way,
\* the optimizer thread sleeps and ticks, and stop() is called at any moment.
NextStop ==
    \/ \E outcome \in ConnectOutcomes : ScanConnect(outcome)
    \/ \E reply \in AckReplies : ScanAck(reply)
    \/ \E kind \in ListenEnds : ScanEnd(kind)
    \/ ScanWake
    \/ PoolDetected("c1", PoolNotification)
    \/ \E tx \in {NoTransaction, PoolTransaction} : PoolFetched("c1", tx)
    \/ DetectDone("c1", << >>)
    \/ OracleDone("c1", PassingReply)
    \/ QuotesDone("c1", TRUE, TRUE)
    \/ WalletDone("c1", 101)
    \/ \E ok \in BOOLEAN : BuyDone("c1", ok)
    \/ SetInitialCapital(100)
    \/ RunSleep
    \/ \E rotate \in Rotations, factor \in TuneFactors, save \in SaveOutcomes :
          RunWake(rotate, factor, save)
    \/ RunExit
    \/ Stop

SpecStop == Init /\ [][NextStop]_vars


\* ------------------------------------------------------------------ claims
BuyAppended(log, log2, token) ==
    /\ Len(log2) = Len(log) + 1
    /\ log2[Len(log2)].action = "buy"
    /\ log2[Len(log2)].token = token

BuysInFlight(token) ==
    Cardinality({p \in CandTasks : cand[p].pc = "buy" /\ cand[p].token = token})

\* C1: in real mode, for every mint, the buy swaps in flight plus the open
\* position of that mint never number more than one (the held check and the
\* insert are not separated by a suspension).
C1_SingleBuyPerLiveToken ==
    ~simulation_mode =>
        \A t \in Tokens :
            BuysInFlight(t) + (IF Has(held_tokens, t) THEN 1 ELSE 0) <= 1

\* C2: in every mode, while a mint is held no step of a candidate task calls
\* execute_buy for it, appends a BUY record of it to a journal, or changes its
\* position (the entry scenario has no exit evaluation, so only a candidate
\* can touch a position).
C2_HeldShortCircuits ==
    [][\A t \in Tokens : Has(held_tokens, t) =>
          /\ ~BuyAppended(simulation_trades_log, simulation_trades_log', t)
          /\ ~BuyAppended(real_trades_log, real_trades_log', t)
          /\ \A p \in CandTasks :
                (cand'[p].pc = "buy" /\ cand'[p].token = t) => cand[p].pc = "buy"
          /\ Has(held_tokens', t)
          /\ Get(held_tokens', t) = Get(held_tokens, t)]_vars

\* a step that journals a buy opens a new position
BuyStep ==
    \/ \E t \in Tokens : BuyAppended(simulation_trades_log, simulation_trades_log', t)
    \/ \E t \in Tokens : BuyAppended(real_trades_log, real_trades_log', t)

\* C3: over the steps that keep a position (every exit evaluation that does not
\* sell it), max_price never decreases, and it is never below buy_price.
C3_MaxPriceMonotone ==
    [][\A t \in Tokens : (Has(held_tokens, t) /\ Has(held_tokens', t) /\ ~BuyStep) =>
          LET old == Get(held_tokens, t)
              new == Get(held_tokens', t)
          IN /\ HasMaxPrice(old) =>
                    (HasMaxPrice(new) /\ new.max_price >= old.max_price)
             /\ HasMaxPrice(new) => new.max_price >= new.buy_price
             /\ new.buy_price = old.buy_price]_vars

C3_Witness ==
    \E t \in Tokens :
        /\ Has(held_tokens, t)
        /\ HasMaxPrice(Get(held_tokens, t))
        /\ Get(held_tokens, t).max_price > Get(held_tokens, t).buy_price

\* C4: an exit evaluation decides a take-profit sale only when the observed
\* price p and the position's buy_price b satisfy p / b >= sell_multiplier,
\* with the sell_multiplier in force at that evaluation.
C4_TakeProfitOnlyAtMultiple ==
    [][(last_exit' # last_exit /\ last_exit'.kind = "take_profit") =>
          /\ Has(held_tokens, last_exit'.token)
          /\ Get(held_tokens, last_exit'.token).buy_price > 0
          /\ last_exit'.price * 100 >=
                sell_multiplier * Get(held_tokens, last_exit'.token).buy_price]_vars

C4_Witness ==
    /\ last_exit.kind = "take_profit"
    /\ ~Has(held_tokens, last_exit.token)
    /\ \/ (simulation_mode /\ Len(simulation_trades_log) > 0
           /\ simulation_trades_log[Len(simulation_trades_log)].action = "sell")
       \/ (~simulation_mode /\ Len(real_trades_log) > 0
           /\ real_trades_log[Len(real_trades_log)].action = "sell")

\* C5: an exit evaluation decides a trailing-stop sale only when the observed
\* price p satisfies p < max_price * (1 - trailing_stop_percent), max_price
\* being the running maximum with p taken into account.
C5_TrailingStopOnlyBelowThreshold ==
    [][(last_exit' # last_exit /\ last_exit'.kind = "trailing_stop") =>
          /\ Has(held_tokens, last_exit'.token)
          /\ LET pos == Get(held_tokens, last_exit'.token)
                 p == last_exit'.price
                 seen == IF HasMaxPrice(pos) THEN pos.max_price ELSE pos.buy_price
                 top == IF p > seen THEN p ELSE seen
             IN /\ p * 100 < top * (100 - trailing_stop_percent)
                /\ ~simulation_mode =>
                      Get(held_tokens', last_exit'.token).max_price = top]_vars

C5_Witness ==
    /\ last_exit.kind = "trailing_stop"
    /\ ~Has(held_tokens, last_exit.token)

\* C6: in real mode, every SELL record of the real journal is preceded by a BUY
\* record of the same mint with no other record of that mint in between (at
\* most one SELL per BUY, and no SELL without a BUY).
C6_OneSellPerBuy ==
    ~simulation_mode =>
        \A i \in 1..Len(real_trades_log) :
            real_trades_log[i].action = "sell" =>
                \E j \in 1..(i - 1) :
                    /\ real_trades_log[j].action = "buy"
                    /\ real_trades_log[j].token = real_trades_log[i].token
                    /\ \A k \in (j + 1)..(i - 1) :
                          real_trades_log[k].token # real_trades_log[i].token

\* the admission table: the report triggers at least one rule
TriggersRule(info, has_liquidity, is_sellable) ==
    \/ info.is_honeypot
    \/ TaxGet(info.taxes, "buy") > 15
    \/ TaxGet(info.taxes, "sell") > 15
    \/ info.marketcap > 50000
    \/ info.antiBot
    \/ ~has_liquidity
    \/ ~is_sellable

\* C7: in real mode a candidate whose report triggers an admission rule never
\* reaches execute_buy: its task ends, no position is created and no record is
\* journaled.
C7_RuleRejects ==
    [][\A p \in CandTasks :
          (cand[p].pc = "wallet"
           /\ TriggersRule(cand[p].info, cand[p].has_liquidity, cand[p].is_sellable)
           /\ cand'[p] # cand[p]) =>
              /\ cand'[p] = Idle
              /\ held_tokens' = held_tokens
              /\ real_trades_log' = real_trades_log]_vars

\* a candidate with a triggering (sell-tax) report was processed to its end
\* with a wallet and a capital that allow the buy, and nothing was bought
C7_Witness ==
    /\ ~simulation_mode /\ payer
    /\ available_capital >= buy_amount_sol
    /\ "X" \in DOMAIN honeypot_cache
    /\ TaxGet(honeypot_cache["X"].data.taxes, "sell") > 15
    /\ cand["c1"] = Idle
    /\ ~Has(held_tokens, "X")
    /\ real_trades_log = << >>

\* C8: a candidate whose report comes from an unavailable oracle (served
\* directly or from the cache) never reaches execute_buy.
C8_UnavailableOracleRejects ==
    [][\A p \in CandTasks :
          (cand[p].pc = "wallet" /\ ~cand[p].info.available) =>
              cand'[p].pc # "buy"]_vars

\* C9: when execute_buy reports success = false, no position is created, no
\* BUY record is journaled and a BUY_FAILED record is journaled.
C9_FailedBuyRejects ==
    [][\A p \in CandTasks :
          (cand[p].pc = "buy" /\ cand'[p].pc = "idle" /\ ~last_swap'.success) =>
              /\ held_tokens' = held_tokens
              /\ ~BuyAppended(real_trades_log, real_trades_log', cand[p].token)
              /\ Len(real_trades_log') = Len(real_trades_log) + 1
              /\ real_trades_log'[Len(real_trades_log')].action = "buy_failed"]_vars

\* a step on which execute_sell returned success = false to its caller
SellFailedStep ==
    /\ \/ (eval.pc = "selling" /\ eval'.pc = "idle")
       \/ (liq.pc = "selling" /\ liq' # liq)
    /\ last_swap'.op = "sell"
    /\ ~last_swap'.success

\* C10: in real mode, when a sell swap fails the position stays as it was and
\* no SELL record is journaled.
C10_FailedSellKeepsPosition ==
    [][SellFailedStep =>
          /\ held_tokens' = held_tokens
          /\ real_trades_log' = real_trades_log]_vars

\* C11: in simulation mode the gateway's swap operations are never called: no
\* task is ever suspended in execute_buy or execute_sell and no swap result
\* was ever returned.
C11_SimNeverSwaps ==
    simulation_mode =>
        /\ last_swap.op = "none"
        /\ \A p \in CandTasks : cand[p].pc # "buy"
        /\ eval.pc # "selling"
        /\ liq.pc # "selling"

\* simulated trading went through an entry, an exit decided by a rule and a
\* second entry
C11_Witness ==
    /\ simulation_mode
    /\ last_exit.kind # "none"
    /\ Len(simulation_trades_log) >= 3
    /\ \E i \in 1..Len(simulation_trades_log) : simulation_trades_log[i].action = "sell"
    /\ Has(held_tokens, "X")

\* the valid range of each engine parameter
BuyAmountValid(v) == 10 <= v /\ v <= 2000

SellMultiplierValid(v) == 100 <= v /\ v <= 250

TrailingStopValid(v) == 0 < v /\ v < 100

\* C12: set_param rejects a value outside the valid range of its key, so an
\* engine parameter only ever changes to a value of its valid range.
C12_SetParamValidates ==
    [][/\ buy_amount_sol' # buy_amount_sol => BuyAmountValid(buy_amount_sol')
       /\ sell_multiplier' # sell_multiplier => SellMultiplierValid(sell_multiplier')
       /\ trailing_stop_percent' # trailing_stop_percent =>
             TrailingStopValid(trailing_stop_percent')]_vars

\* a step that is one tick of the optimizer
TickStep == optimizer'.ticks_done = optimizer.ticks_done + 1

\* C13: a tick of the optimizer that starts with buy_amount_sol and
\* sell_multiplier in their valid ranges ends with both in their valid ranges.
C13_TicksKeepRanges ==
    [][(TickStep /\ BuyAmountValid(buy_amount_sol)
                 /\ SellMultiplierValid(sell_multiplier)) =>
          (BuyAmountValid(buy_amount_sol') /\ SellMultiplierValid(sell_multiplier'))]_vars

\* C14: best_profit of the optimizer never decreases.
C14_BestProfitMonotone ==
    [][optimizer'.best_profit >= optimizer.best_profit]_vars

\* a tick memorized the profit 1.0 of the journal and a later tick computed
\* the lower profit 0.5
C14_Witness ==
    /\ optimizer.ticks_done >= 2
    /\ optimizer.best_profit = 100
    /\ optimizer.last_profit = 50
    /\ ComputeProfit(simulation_trades_log) = 50

\* the record a step appends to the real journal
RealRecordAdded == Len(real_trades_log') = Len(real_trades_log) + 1

LastReal == real_trades_log'[Len(real_trades_log')]

\* C15: a step that journals a real entry lowers available_capital by the
\* amount bought, and a step that journals a real exit raises it by the
\* proceeds of the sale.
C15_CapitalFollowsTrades ==
    [][RealRecordAdded =>
          /\ LastReal.action = "buy" =>
                available_capital' =
                    available_capital - Get(held_tokens', LastReal.token).buy_amount
          /\ (LastReal.action = "sell" /\ ~LastReal.forced) =>
                available_capital' = available_capital + LastReal.price]_vars

TickProfit == ComputeProfit(simulation_trades_log)

TickWinrate == ComputeStats(simulation_trades_log)

TickDrawdown == ComputeDrawdown(simulation_trades_log)

\* C17: a tick that starts not frozen with winrate > 0.70, drawdown < 0.10 and
\* cumulative profit > 0.5 ends frozen, whatever best_profit is.
C17_StableTickFreezes ==
    [][(TickStep /\ ~optimizer.freeze /\ Above(TickWinrate, 70)
                 /\ Below(TickDrawdown, 10) /\ TickProfit > 50) =>
          optimizer'.freeze]_vars

\* C18: a tick that starts frozen ends unfrozen if and only if winrate < 0.60
\* or drawdown > 0.15 or cumulative profit < 0.8 * best_profit; otherwise it
\* stays frozen.
C18_FrozenReleasedIff ==
    [][(TickStep /\ optimizer.freeze) =>
          (~optimizer'.freeze <=>
              \/ Below(TickWinrate, 60)
              \/ Above(TickDrawdown, 15)
              \/ TickProfit * 10 < optimizer.best_profit * 8)]_vars

\* two ticks: the first memorized the profit 1.0 of one winning trade and
\* froze, the second found the profit 0.5 after a losing trade (winrate 0.5)
\* and released the freeze
C18_Witness ==
    /\ optimizer.ticks_done = 2
    /\ optimizer.best_profit = 100
    /\ optimizer.last_profit = 50
    /\ ~optimizer.freeze

\* C19: a tick where cumulative profit < 0.5 * best_profit and the optimizer is
\* not frozen adds exactly one to rollback_count and ends with the engine's
\* buy_amount_sol and sell_multiplier equal to those of best_params.
C19_RollbackRestoresBest ==
    [][(TickStep /\ TickProfit * 10 < optimizer'.best_profit * 5
                 /\ ~optimizer'.freeze) =>
          /\ optimizer'.rollback_count = optimizer.rollback_count + 1
          /\ buy_amount_sol' = optimizer'.best_params.buy_amount_sol
          /\ sell_multiplier' = optimizer'.best_params.sell_multiplier]_vars

\* C20: sell_all_tokens writes a record with forced = true for a position only
\* if the sale of that position succeeded, which removes the position: a step
\* that journals a forced record for a token leaves that token not held.
C20_ForcedRecordOnlyIfSold ==
    [][\A i \in (Len(real_trades_log) + 1)..Len(real_trades_log') :
          real_trades_log'[i].forced =>
              ~Has(held_tokens', real_trades_log'[i].token)]_vars

\* a step on which a simulated position is sold by the take-profit rule
SimTakeProfitStep ==
    /\ simulation_mode
    /\ last_exit' # last_exit
    /\ last_exit'.kind = "take_profit"
    /\ Has(held_tokens, last_exit'.token)
    /\ ~Has(held_tokens', last_exit'.token)

\* C21: in simulation mode, after a take-profit sale made less than 3600 s
\* after the buy, the creator cache exists, holds every creator wallet of the
\* position sold and has been saved; and a wallet of the cache stays in it.
C21_SimSaleLearnsCreators ==
    [][/\ (SimTakeProfitStep
           /\ now - Get(held_tokens, last_exit'.token).buy_timestamp < 3600) =>
             /\ successful_creator_cache'.assigned
             /\ \A i \in 1..Len(Get(held_tokens, last_exit'.token).creator_wallets) :
                   Get(held_tokens, last_exit'.token).creator_wallets[i]
                       \in successful_creator_cache'.wallets
             /\ successful_creator_cache'.saved
       /\ successful_creator_cache.assigned =>
             /\ successful_creator_cache'.assigned
             /\ successful_creator_cache.wallets
                    \subseteq successful_creator_cache'.wallets]_vars

\* C22: in real mode a candidate that arrives more than 3600 s after the start
\* is handled in the exploitation phase, and a candidate of the exploitation
\* phase (none of its creator wallets is in the cache, which holds no wallet)
\* ends when its creators are known: execute_buy is not called, no position is
\* created or changed and nothing is journaled.
C22_ExploitationRejects ==
    [][\A p \in CandTasks :
          /\ (cand[p].pc = "idle" /\ cand'[p].pc = "detect" /\ now > 3600) =>
                ~cand'[p].explore
          /\ (cand[p].pc = "detect" /\ ~cand[p].explore /\ cand'[p] # cand[p]) =>
                /\ ~successful_creator_cache.assigned
                /\ cand'[p] = Idle
                /\ held_tokens' = held_tokens
                /\ real_trades_log' = real_trades_log
                /\ last_swap' = last_swap]_vars

\* a candidate is being handled in the exploitation phase by an engine whose
\* wallet and capital would allow the buy
C22_Witness ==
    /\ ~simulation_mode /\ payer
    /\ now > 3600
    /\ available_capital >= buy_amount_sol
    /\ cand["c1"].pc = "detect"
    /\ ~cand["c1"].explore

\* C24: when no wallet key is loaded (real mode was requested with a missing
\* or malformed key, or simulation was requested), the decision engine and the
\* gateway are both in simulation mode and the real journal stays empty.
C24_BadKeyDegradesToSim ==
    ~payer =>
        /\ simulation_mode
        /\ simulate
        /\ real_trades_log = << >>

\* C25: once stop() has returned, a process_new_pool task spawned before it
\* dispatches no candidate: when its transaction arrives the task ends, no
\* position is created, nothing is journaled and no candidate is analysed.
C25_StopCancelsDiscovery ==
    [][\A p \in CandTasks :
          (~life.running /\ cand[p].pc = "pool" /\ cand'[p] # cand[p]) =>
              /\ cand'[p] = Idle
              /\ held_tokens' = held_tokens
              /\ simulation_trades_log' = simulation_trades_log]_vars

\* C26: once stop() has returned, the optimizer makes no tick and the engine's
\* buy_amount_sol and sell_multiplier keep their values.
C26_StopEndsOptimizer ==
    [][~life.running =>
          /\ ~TickStep
          /\ buy_amount_sol' = buy_amount_sol
          /\ sell_multiplier' = sell_multiplier]_vars

\* C27: an exit evaluation of a position at price p sells by take profit
\* whenever the take-profit test holds (also when the trailing-stop test holds
\* too), sells by trailing stop whenever only that test holds, and turns to
\* the creator-sell check only when neither test holds.
C27_ExitPriority ==
    [][/\ (eval.pc = "idle" /\ last_exit' # last_exit
           /\ Has(held_tokens, last_exit'.token)) =>
             LET pos == Get(held_tokens, last_exit'.token)
                 p == last_exit'.price
             IN /\ TakeProfitHit(pos, p) => last_exit'.kind = "take_profit"
                /\ (~TakeProfitHit(pos, p)
                    /\ TrailingStopHit(RunningMax(pos, p), p)) =>
                      last_exit'.kind = "trailing_stop"
       /\ (eval.pc = "idle" /\ eval'.pc = "creator_check") =>
             LET pos == Get(held_tokens, eval'.token)
                 p == eval'.price
             IN /\ ~TakeProfitHit(pos, p)
                /\ ~TrailingStopHit(RunningMax(pos, p), p)]_vars

\* a real position is being sold by take profit at a price that is also under
\* its trailing-stop threshold
C27_Witness ==
    /\ eval.pc = "selling"
    /\ eval.kind = "take_profit"
    /\ last_exit.kind = "take_profit"
    /\ last_exit.price = eval.price
    /\ Has(held_tokens, eval.token)
    /\ LET pos == Get(held_tokens, eval.token) IN
          /\ HasMaxPrice(pos)
          /\ TakeProfitHit(pos, eval.price)
          /\ TrailingStopHit(pos.max_price, eval.price)

\* C28: the running maximum is raised to the observed price before any exit
\* rule is applied: a position still held after an evaluation that decided a
\* sale at price p, or after the failure of that sale, has max_price >= p.
C28_MaxPriceCoversObserved ==
    [][/\ (eval.pc = "idle" /\ last_exit' # last_exit
           /\ Has(held_tokens', last_exit'.token)) =>
             /\ HasMaxPrice(Get(held_tokens', last_exit'.token))
             /\ Get(held_tokens', last_exit'.token).max_price >= last_exit'.price
       /\ (eval.pc = "selling" /\ eval'.pc = "idle"
           /\ Has(held_tokens', eval.token)) =>
             /\ HasMaxPrice(Get(held_tokens', eval.token))
             /\ Get(held_tokens', eval.token).max_price >= eval.price]_vars

\* C29: a tick that ends frozen changes neither buy_amount_sol nor
\* sell_multiplier: no rotation (the profile index stays), no adjustment, no
\* exploration, no rollback (rollback_count stays) and no recovery.
C29_FrozenTickKeepsParams ==
    [][(TickStep /\ optimizer'.freeze) =>
          /\ buy_amount_sol' = buy_amount_sol
          /\ sell_multiplier' = sell_multiplier
          /\ optimizer'.current_profile = optimizer.current_profile
          /\ optimizer'.rollback_count = optimizer.rollback_count]_vars

\* a tick has ended frozen
C29_Witness ==
    /\ optimizer.ticks_done >= 1
    /\ optimizer.freeze

\* the engine parameters after at most one of the rotation to the next
\* profile (5.a) and the drawdown or win-rate adjustment (5.b, 5.c)
OneMutationResults ==
    { EngineParams,
      SwitchProfile(EngineParams,
                    (optimizer.current_profile + 1) % Len(StrategyProfiles)),
      ClassicAdjust(EngineParams, TickWinrate, TickDrawdown) }

\* C30: a tick applies at most one of the profile rotation, the drawdown guard
\* and the win-rate adjustment: on a tick that ends neither frozen, nor rolled
\* back, nor in recovery, the new parameters are those obtained from the old by
\* at most one of the three, followed by the optional random exploration.
C30_AtMostOneMutation ==
    [][(/\ TickStep
        /\ ~optimizer'.freeze
        /\ optimizer'.rollback_count = optimizer.rollback_count
        /\ optimizer'.loss_streak < 3) =>
          \E base \in OneMutationResults :
              \/ EngineParams' = base
              \/ \E factor \in TuneFactors \ {0} :
                     EngineParams' = AutoTune(base, factor)]_vars

\* a tick whose cumulative profit exceeds best_profit
NewBestTick == TickStep /\ TickProfit > optimizer.best_profit

\* C31: a tick whose cumulative profit exceeds best_profit sets best_params to
\* the buy_amount_sol and sell_multiplier in force at the start of the tick and
\* best_profit to that profit, whether or not the parameter file is written.
C31_NewBestMemorized ==
    [][NewBestTick =>
          /\ optimizer'.best_params = EngineParams
          /\ optimizer'.best_profit = TickProfit]_vars

\* a tick memorized parameters that it then changed and did not persist
C31_Witness ==
    /\ optimizer.ticks_done >= 1
    /\ optimizer.best_profit = ComputeProfit(simulation_trades_log)
    /\ optimizer.best_params # EngineParams
    /\ param_file # ParamFile(optimizer.best_params, optimizer.best_profit)

\* C32: in simulation mode the SELL record of a take-profit exit carries
\* buy_price * sell_multiplier, and the SELL record of a trailing-stop exit
\* carries the observed price that triggered it.
C32_SimSellPriceByRule ==
    [][(/\ simulation_mode
        /\ last_exit' # last_exit
        /\ Len(simulation_trades_log') = Len(simulation_trades_log) + 1) =>
          LET rec == simulation_trades_log'[Len(simulation_trades_log')]
              pos == Get(held_tokens, last_exit'.token)
          IN /\ rec.action = "sell"
             /\ last_exit'.kind = "take_profit" =>
                    rec.price = Scale(pos.buy_price, sell_multiplier)
             /\ last_exit'.kind = "trailing_stop" =>
                    rec.price = last_exit'.price]_vars

\* C33: in simulation mode no operation appends a record to the real trade
\* journal.
C33_SimNeverWritesRealJournal ==
    simulation_mode => real_trades_log = << >>

\* C34: one entry evaluation uses one value of buy_amount_sol: the amount
\* stored in the position is the amount that was checked against the balance
\* and the capital and passed to execute_buy, whatever set_param does while the
\* entry is suspended.
C34_EntryUsesOneBuyAmount ==
    [][\A p \in CandTasks :
          (/\ cand[p].pc = "buy"
           /\ cand'[p].pc = "idle"
           /\ held_tokens' # held_tokens) =>
             Get(held_tokens', cand[p].token).buy_amount = cand[p].amount]_vars

\* C35: every end of a connection is followed by a backoff before the next
\* connection attempt (a new attempt is only made when a backoff ends), and a
\* notification is only processed on a connection whose subscription request
\* was sent and acknowledged.
C35_BackoffBeforeReconnect ==
    [][/\ (scanner'.pc = "connect" /\ scanner.pc # "connect") =>
              scanner.pc \in {"sleep5", "sleep10"}
       /\ (\E p \in CandTasks : cand[p].pc = "idle" /\ cand'[p].pc = "pool") =>
              scanner.pc = "listen"]_vars

\* a step in which process_new_pool receives its transaction
PoolFetchedStep(p) == cand[p].pc = "pool" /\ cand'[p].pc # "pool"

\* the candidate a step hands to process_new_token_candidate, if any
CandidateEntered(p, mint) ==
    IF simulation_mode
    THEN /\ Len(simulation_trades_log') = Len(simulation_trades_log) + 1
         /\ simulation_trades_log'[Len(simulation_trades_log')].token = mint
    ELSE cand'[p].pc = "detect" /\ cand'[p].token = mint

IsInitialize2(ix) == ix.program = "raydium" /\ ix.data = "initialize2"

WellFormedRecords(file) ==
    SelectSeq(file, LAMBDA line : {"action", "token", "price"} \subseteq DOMAIN line)

\* C37: a malformed journal line never prevents a tick: when the optimizer's
\* sleep ends, the tick completes, its aggregates are those of the well-formed
\* records of the journal, and the thread goes back to the test of its loop.
C37_MalformedLinesSkipped ==
    [][(life.opt = "sleeping" /\ life'.opt # "sleeping"
        /\ optimizer.ticks_done < MaxOptTicks) =>
          /\ TickStep
          /\ optimizer'.last_profit =
                 ComputeProfit(WellFormedRecords(simulation_trades_log))
          /\ life'.opt = "loop"]_vars

\* no task of the engine is suspended in the middle of an entry or an exit
Quiescent ==
    /\ \A p \in CandTasks : cand[p].pc = "idle"
    /\ eval.pc = "idle"
    /\ liq.pc = "idle"

\* C38: at every quiescent point the tokens under real-time monitoring are
\* among the keys of held_tokens, in simulation as in real mode: a sold token
\* is no longer monitored.
C38_WatchedAreHeld ==
    Quiescent => \A t \in realtime_analyzer.watched : Has(held_tokens, t)

\* C39: the exit evaluation of a live position never aborts: for every held
\* position, also one admitted at the price 0.0, an evaluation at a price that
\* is at least sell_multiplier times its buy price ends in a sale (the position
\* is sold, or its sale is sent to the gateway).
C39_EvaluationSellsAtMultiple ==
    \A t \in Tokens, p \in ObservedPrices :
        (/\ eval.pc = "idle"
         /\ JournalRoom
         /\ Has(held_tokens, t)
         /\ p * 100 >= sell_multiplier * Get(held_tokens, t).buy_price) =>
            ENABLED (/\ Evaluate(t, p, FALSE)
                     /\ \/ ~Has(held_tokens', t)
                        \/ eval'.pc = "selling")

\* C40: a tick whose cumulative profit equals best_profit (the profit is the
\* best seen so far) triggers no rollback, whatever the sign of the profit.
C40_NoRollbackAtBestProfit ==
    [][(TickStep /\ TickProfit = optimizer'.best_profit) =>
          optimizer'.rollback_count = optimizer.rollback_count]_vars

====
